---- MODULE Spec2Model ----
(***************************************************************************)
(* The submission pipeline of omi-stitch: submit_project (app/main.py),    *)
(* the EmailService background delivery (app/email_service.py) and the    *)
(* Database gateway they share (app/database.py), for one server process. *)
(*                                                                         *)
(* A gateway call (Database.fetch_one) is one transaction and is taken as *)
(* one step here: it raises when the pool is not there, and otherwise the *)
(* database either commits the statement or raises and rolls it back.     *)
(* A handler that an exception leaves would be at pc "crashed".           *)
(* The rendered bodies are not carried through the pipeline: of the       *)
(* renderer only the part that can raise (first_name) is modelled.        *)
(***************************************************************************)
EXTENDS Integers, Sequences, FiniteSets, TLC

\* ------------------------------------------------------------------ bounds

\* Number of submit_project calls a behaviour may hold.
MaxRequests == 2

Requests == 1..MaxRequests

\* ------------------------------------------------------------- value model

\* Python None / SQL NULL for ids: ids travel as str(id), modelled <<id>>.
None == <<>>

StrId(id) == <<id>>

\* SQL NULL of a text or timestamp column.
Null == "NULL"

\* contact_name values, as sequences of characters.
EmptyName == <<>>

BlankName == <<" ", " ">>

JaneDoe == <<"J", " ", "D">>

Names == {EmptyName, BlankName, JaneDoe}

Emails == {"", "jane@x.com"}

\* The submissions a client can post: the required fields are any strings.
Phones == {"555-0100"}
Submissions ==
    [contact_name : Names, contact_email : Emails, contact_phone : Phones]

IsSpace(c) == c \in {" ", "\t"}

\* str.split() without arguments: the maximal runs of non-whitespace of s.
RECURSIVE SplitFrom(_, _, _)
SplitFrom(s, i, cur) ==
    IF i > Len(s)
    THEN IF cur = <<>> THEN <<>> ELSE <<cur>>
    ELSE IF IsSpace(s[i])
         THEN IF cur = <<>>
              THEN SplitFrom(s, i + 1, <<>>)
              ELSE <<cur>> \o SplitFrom(s, i + 1, <<>>)
         ELSE SplitFrom(s, i + 1, Append(cur, s[i]))

Split(s) == SplitFrom(s, 1, <<>>)

There == <<"t", "h", "e", "r", "e">>

\* first_name = contact_name.split()[0] if contact_name else "there":
\* indexing the empty list raises IndexError.
FirstNameRaises(contact_name) ==
    contact_name # <<>> /\ Split(contact_name) = <<>>

FirstName(contact_name) ==
    IF contact_name = <<>> THEN There ELSE Split(contact_name)[1]

\* generate_submission_confirmation_email raises for this submission.
RenderRaises(sub) == FirstNameRaises(sub.contact_name)

ValuedCreator == <<"V", "C">>

\* to_name = submission.contact_name or "Valued Creator"
ToName(sub) ==
    IF sub.contact_name = <<>> THEN ValuedCreator ELSE sub.contact_name

\* ------------------------------------------------------------------- state

VARIABLES
    phase,                \* "init" | "running" | "stopped": lifespan
    pool,                 \* "none" | "open": Database._pool
    email_service,        \* the module-level singleton exists
    project_submissions,  \* table: id -> row
    emails_sent,          \* table: id -> EmailRecord
    req,                  \* per request: the locals of submit_project
    thr,                  \* per request: the locals of its send_email thread
    env                   \* per request: what the environment did to it

\* The Database singleton seen from inside (database.py), for the claims
\* about one gateway call's steps:
\*   db_pool  Database._pool: 0 for None, else the number of a pool object
\*   pools    the ThreadedConnectionPool objects created so far
\*   call     the gateway call each caller thread is in
\*   init     the position of each initialize_pool call
\*   closer   the position of the close_pool call
VARIABLES db_pool, pools, call, init, closer

pipe == <<phase, pool, email_service, project_submissions, emails_sent,
          req, thr, env>>
\* _send_smtp seen from inside (email_service.py), one call per delivery
\* thread: smtp[r] is the position of the call in its SMTP session.
VARIABLES smtp

\* The validation of the request body in front of submit_project:
\* intake[r] is the payload posted and what became of it.
VARIABLES intake

\* The last request to the status and delete endpoints and its answer.
VARIABLES admin

\* generate_submission_confirmation_email called twice on one
\* submission_data: the data, the year of the clock, and what each call
\* gave.
VARIABLES render

gwv == <<db_pool, pools, call, init, closer>>
aux == <<gwv, smtp, intake, admin, render>>
vars == <<pipe, aux>>

NoResponse ==
    [success |-> FALSE, submission_id |-> None, db_saved |-> FALSE,
     email_queued |-> FALSE]

IdleRequest ==
    [pc |-> "idle",
     sub |-> [contact_name |-> EmptyName, contact_email |-> "",
              contact_phone |-> ""],
     submission_id |-> None, db_saved |-> FALSE, email_sent |-> FALSE,
     response |-> NoResponse]

NoThread ==
    [pc |-> "none", to_email |-> "", to_name |-> EmptyName,
     submission_id |-> None, email_id |-> None,
     success |-> FALSE, message_id |-> "", response |-> ""]

\* persist, start, create, update: "-" not reached, "ok", "fail";
\* attempts: the number of times the relay was contacted for the request.
NoEnv ==
    [persist |-> "-", start |-> "-", create |-> "-", update |-> "-",
     attempts |-> 0]

\* Bounds of the gateway: caller threads, and max_connections (DB_MAX_CONN,
\* 10 unless configured).
MaxCallers == 2
MaxConn == 1
Callers == 1..MaxCallers
Conns == 1..MaxConn
\* The initialize_pool calls: the one lifespan makes, and one more.
Initializers == {"lifespan", "second"}
PoolIds == 1..Cardinality(Initializers)

NoPool == [created |-> FALSE, closed |-> FALSE, used |-> {}]

\* pc: idle, getconn, cursor, body, commit, rollback, putconn, returned
\* p, conn: the pool and connection getconn gave (0: none)
\* exc: the exception in flight ("" none), named after the statement that
\*      raised it; body_ok, committed, rolled_back: what the call did so far
\* released: the number of times putconn took the connection back
NoCall ==
    [pc |-> "idle", p |-> 0, conn |-> 0, exc |-> "", body_ok |-> FALSE,
     committed |-> FALSE, rolled_back |-> FALSE, released |-> 0]

GwInit ==
    /\ db_pool = 0
    /\ pools = [p \in PoolIds |-> NoPool]
    /\ call = [c \in Callers |-> NoCall]
    /\ init = [i \in Initializers |-> "idle"]
    /\ closer = "idle"

PipeInit ==
    /\ phase = "init"
    /\ pool = "none"
    /\ email_service = FALSE
    /\ project_submissions = <<>>
    /\ emails_sent = <<>>
    /\ req = [r \in Requests |-> IdleRequest]
    /\ thr = [r \in Requests |-> NoThread]
    /\ env = [r \in Requests |-> NoEnv]

\* pc: idle, connected, greeted, tls, regreeted, loggedin, leaving,
\*     left, returned
\* exc: the class of the exception in flight ("" none)
\* accepted: the relay took the message (sendmail returned)
NoSession ==
    [pc |-> "idle", exc |-> "", accepted |-> FALSE,
     result |-> [success |-> FALSE, message_id |-> "", response |-> ""]]

SmtpInit == smtp = [r \in Requests |-> NoSession]

\* A request body: each required contact field is absent or a string, the
\* budget is absent, a number, or text that is no number.
MissingName == <<"<missing>">>
Missing == "<missing>"
Payloads ==
    [contact_name : Names \cup {MissingName},
     contact_email : Emails \cup {Missing},
     contact_phone : {"", "555-0100", Missing},
     budget : {Missing, "1000", "a lot"}]

NoPayload ==
    [contact_name |-> MissingName, contact_email |-> Missing,
     contact_phone |-> Missing, budget |-> Missing]

\* pc: none (nothing posted), accepted (handed to submit_project),
\*     rejected (answered 422 by the validation)
NoIntake == [pc |-> "none", payload |-> NoPayload]

IntakeInit == intake = [r \in Requests |-> NoIntake]

\* The six actor slots of the form (range(1, 7)).
MaxActors == 6
ActorSlots == 1..MaxActors

\* A budget: None, a number (kept in cents), or text that is no number.
NoBudget == [kind |-> "none", cents |-> 0, text |-> <<>>]
Number(cents) == [kind |-> "number", cents |-> cents, text |-> <<>>]
Text(t) == [kind |-> "text", cents |-> 0, text |-> t]
Budgets ==
    {NoBudget, Number(0), Number(123450), Number(100000000),
     Text(<<"a", " ", "l", "o", "t">>)}

\* A title: None (or no key), the empty string, a title.
Titles == {Null, "", "Dune"}

\* The name in slot i when the slot is filled; an empty slot is "".
ActorName == <<"Ann", "Bob", "Cy", "Di", "Ed", "Flo">>
ActorLists == [ActorSlots -> BOOLEAN]

\* The submission_data dictionaries: actors[i] says slot i is filled.
SubmissionData ==
    [contact_name : Names, title : Titles, budget : Budgets,
     actors : ActorLists]

Years == {2025, 2026}

NoOutput == [raised |-> FALSE, subject |-> <<>>, html |-> <<>>, plain |-> <<>>]

NoRender ==
    [data |-> [contact_name |-> EmptyName, title |-> Null,
               budget |-> NoBudget, actors |-> [i \in ActorSlots |-> FALSE]],
     year |-> 2025, calls |-> 0, first |-> NoOutput, second |-> NoOutput]

\* op: "-" (none yet), "status", "delete"; id, status, reviewed_by: the
\* arguments; success: the answer
NoAdmin ==
    [op |-> "-", id |-> 0, status |-> "", reviewed_by |-> Null,
     success |-> FALSE]

AdminInit == admin = NoAdmin

Init ==
    /\ PipeInit
    /\ GwInit
    /\ SmtpInit
    /\ IntakeInit
    /\ AdminInit
    /\ render = NoRender

\* ----------------------------------------------------------------- gateway

\* A gateway that still commits after close_pool.
GatewayOutcomes_IgnoresPool == {"ok", "fail"}

\* What one gateway call can end as. With no pool get_connection raises
\* RuntimeError before anything runs; with a pool the statement commits
\* ("ok"), or raises and is rolled back ("fail").
GatewayOutcomes == IF pool = "none" THEN {"fail"} ELSE {"ok", "fail"}

\* The id a RETURNING id insert gives the next row of a table.
NextId(table) == Len(table) + 1

\* ---------------------------------------------------------------- lifespan

\* lifespan startup: initialize_pool, whose failure is caught and printed.
Startup ==
    /\ phase = "init"
    /\ \E connected \in BOOLEAN :
          pool' = IF connected THEN "open" ELSE "none"
    /\ phase' = "running"
    /\ UNCHANGED aux
    /\ UNCHANGED <<email_service, project_submissions, emails_sent,
                   req, thr, env>>

HandlerActive(r) == req[r].pc \in {"persisted", "dispatched"}

\* lifespan shutdown: close_pool. The server lets the handlers in flight
\* finish first; the daemon threads are not waited for.
Shutdown ==
    /\ phase = "running"
    /\ \A r \in Requests : ~HandlerActive(r)
    /\ phase' = "stopped"
    /\ pool' = "none"
    /\ UNCHANGED aux
    /\ UNCHANGED <<email_service, project_submissions, emails_sent,
                   req, thr, env>>

\* --------------------------------------------------------- submit_project

\* The row the INSERT of submit_project writes (the columns the model keeps).
\* status, updated_at, reviewed_at and reviewed_by are not in the INSERT:
\* they get the defaults of the table.
SubmissionRow(sub) ==
    [contact_name |-> sub.contact_name, contact_email |-> sub.contact_email,
     contact_phone |-> sub.contact_phone, status |-> "pending",
     updated_at |-> Null, reviewed_at |-> Null, reviewed_by |-> Null]

\* The save reported without the id of the new row.
PersistSaved_NoId(q, id) ==
    [q EXCEPT !.pc = "persisted", !.db_saved = TRUE]

\* try-block of the save, when fetch_one returned the new row's id.
PersistSaved(q, id) ==
    [q EXCEPT !.pc = "persisted", !.submission_id = StrId(id),
              !.db_saved = TRUE]

\* An exception that leaves submit_project: the caller gets no response.
PersistFailed_Propagates(q) == [q EXCEPT !.pc = "crashed"]

\* The save raised, or returned no row: the except clause prints and the
\* handler goes on with submission_id = None, db_saved = False.
PersistFailed(q) == [q EXCEPT !.pc = "persisted"]

\* A request arrives and the handler runs up to the end of the save.
\* submit_project is a coroutine that never awaits, so the event loop runs
\* one handler at a time; only the delivery threads run beside it.
\* Requests are taken in the order of their numbers.
Submit(r, sub) ==
    /\ phase = "running"
    /\ req[r].pc = "idle"
    /\ r > 1 => req[r - 1].pc # "idle"
    /\ \A o \in Requests : ~HandlerActive(o)
    /\ \E out \in GatewayOutcomes :
          LET q == [req[r] EXCEPT !.sub = sub] IN
          IF out = "ok"
          THEN /\ project_submissions' =
                      Append(project_submissions, SubmissionRow(sub))
               /\ req' = [req EXCEPT ![r] =
                              PersistSaved(q, NextId(project_submissions))]
               /\ env' = [env EXCEPT ![r].persist = "ok"]
          ELSE /\ project_submissions' = project_submissions
               /\ req' = [req EXCEPT ![r] = PersistFailed(q)]
               /\ env' = [env EXCEPT ![r].persist = "fail"]
    /\ UNCHANGED aux
    /\ UNCHANGED <<phase, pool, email_service, emails_sent, thr>>

\* The guard left out: the email block runs for every submission.
SendsEmail_Always(sub) == TRUE

\* if submission.contact_email:
SendsEmail(sub) == sub.contact_email # ""

\* The thread started without the submission's id.
StartedThread_NoLink(q) ==
    [NoThread EXCEPT !.pc = "start", !.to_email = q.sub.contact_email,
                     !.to_name = ToName(q.sub)]

\* The arguments send_email_async hands to the thread it starts.
StartedThread(q) ==
    [NoThread EXCEPT !.pc = "start", !.to_email = q.sub.contact_email,
                     !.to_name = ToName(q.sub),
                     !.submission_id = q.submission_id]

\* The confirmation email block: get_email_service, render, and
\* send_email_async; any exception in it is caught and leaves
\* email_sent = False. Thread.start() can itself fail (no thread left).
EmailStep(r) ==
    /\ req[r].pc = "persisted"
    /\ IF ~SendsEmail(req[r].sub)
       THEN /\ req' = [req EXCEPT ![r].pc = "dispatched"]
            /\ UNCHANGED <<email_service, thr, env>>
       ELSE /\ email_service' = TRUE
            /\ IF RenderRaises(req[r].sub)
               THEN /\ req' = [req EXCEPT ![r].pc = "dispatched"]
                    /\ UNCHANGED <<thr, env>>
               ELSE \E started \in BOOLEAN :
                       IF started
                       THEN /\ thr' = [thr EXCEPT ![r] = StartedThread(req[r])]
                            /\ req' = [req EXCEPT ![r].pc = "dispatched",
                                                  ![r].email_sent = TRUE]
                            /\ env' = [env EXCEPT ![r].start = "ok"]
                       ELSE /\ req' = [req EXCEPT ![r].pc = "dispatched"]
                            /\ env' = [env EXCEPT ![r].start = "fail"]
                            /\ thr' = thr
    /\ UNCHANGED aux
    /\ UNCHANGED <<phase, pool, project_submissions, emails_sent>>

\* The save reported only when the email step went through as well.
Response_SavedIfQueued(q) ==
    [success |-> TRUE,
     submission_id |-> IF q.email_sent THEN q.submission_id ELSE None,
     db_saved |-> q.db_saved /\ q.email_sent,
     email_queued |-> q.email_sent]

\* The dictionary submit_project returns (without the echoed form data).
Response(q) ==
    [success |-> TRUE, submission_id |-> q.submission_id,
     db_saved |-> q.db_saved, email_queued |-> q.email_sent]

\* The handler joining the delivery thread before it answers.
Respond_Waits(r) ==
    /\ req[r].pc = "dispatched"
    /\ thr[r].pc \in {"none", "done"}
    /\ req' = [req EXCEPT ![r].pc = "done", ![r].response = Response(req[r])]
    /\ UNCHANGED aux
    /\ UNCHANGED <<phase, pool, email_service, project_submissions,
                   emails_sent, thr, env>>

Respond(r) ==
    /\ req[r].pc = "dispatched"
    /\ req' = [req EXCEPT ![r].pc = "done", ![r].response = Response(req[r])]
    /\ UNCHANGED aux
    /\ UNCHANGED <<phase, pool, email_service, project_submissions,
                   emails_sent, thr, env>>

\* ----------------------------------------------------- EmailService thread

\* The record inserted as already delivered.
NewEmailRecord_Sent(t) ==
    [submission_id |-> t.submission_id, to_email |-> t.to_email,
     to_name |-> t.to_name, status |-> "sent",
     message_id |-> Null, smtp_response |-> Null, error_message |-> Null,
     sent_at |-> Null, failed_at |-> Null, retry_count |-> 0]

\* The row _create_email_record inserts; the columns it does not name take
\* the table's defaults (NULL, retry_count 0).
NewEmailRecord(t) ==
    [submission_id |-> t.submission_id, to_email |-> t.to_email,
     to_name |-> t.to_name, status |-> "pending",
     message_id |-> Null, smtp_response |-> Null, error_message |-> Null,
     sent_at |-> Null, failed_at |-> Null, retry_count |-> 0]

\* send_email, first statement: _create_email_record. Any exception of the
\* insert is caught there and None is returned.
CreateRecord(r) ==
    /\ thr[r].pc = "start"
    /\ \E out \in GatewayOutcomes :
          IF out = "ok"
          THEN /\ emails_sent' = Append(emails_sent, NewEmailRecord(thr[r]))
               /\ thr' = [thr EXCEPT ![r].pc = "created",
                                     ![r].email_id = StrId(NextId(emails_sent))]
               /\ env' = [env EXCEPT ![r].create = "ok"]
          ELSE /\ emails_sent' = emails_sent
               /\ thr' = [thr EXCEPT ![r].pc = "created"]
               /\ env' = [env EXCEPT ![r].create = "fail"]
    /\ UNCHANGED aux
    /\ UNCHANGED <<phase, pool, email_service, project_submissions, req>>

\* What _send_smtp returns: (True, message_id, "OK") when the relay took
\* the message, (False, "", detail) for every failure it classifies.
SmtpResult(accepted) ==
    IF accepted
    THEN [success |-> TRUE, message_id |-> "<msgid>", response |-> "OK"]
    ELSE [success |-> FALSE, message_id |-> "", response |-> "error detail"]

\* A delivery that tries the relay again after a refusal (three times).
SendSmtp_Retries(r) ==
    /\ thr[r].pc = "created"
    /\ \E accepted \in BOOLEAN :
          LET res == SmtpResult(accepted) IN
          thr' = [thr EXCEPT ![r].pc = IF accepted \/ env[r].attempts >= 2
                                       THEN "attempted" ELSE "created",
                             ![r].success = res.success,
                             ![r].message_id = res.message_id,
                             ![r].response = res.response]
    /\ env' = [env EXCEPT ![r].attempts = @ + 1]
    /\ UNCHANGED aux
    /\ UNCHANGED <<phase, pool, email_service, project_submissions,
                   emails_sent, req>>

\* send_email, second statement: the one network attempt.
SendSmtp(r) ==
    /\ thr[r].pc = "created"
    /\ \E accepted \in BOOLEAN :
          LET res == SmtpResult(accepted) IN
          thr' = [thr EXCEPT ![r].pc = "attempted",
                             ![r].success = res.success,
                             ![r].message_id = res.message_id,
                             ![r].response = res.response]
    /\ env' = [env EXCEPT ![r].attempts = @ + 1]
    /\ UNCHANGED aux
    /\ UNCHANGED <<phase, pool, email_service, project_submissions,
                   emails_sent, req>>

\* The sent update counting a retry as the failed one does.
UpdatedSent_CountsRetry(rec, t) ==
    [rec EXCEPT !.status = "sent", !.message_id = t.message_id,
                !.smtp_response = t.response, !.sent_at = "t",
                !.retry_count = @ + 1]

\* UPDATE ... SET status = 'sent', message_id, smtp_response, sent_at
UpdatedSent(rec, t) ==
    [rec EXCEPT !.status = "sent", !.message_id = t.message_id,
                !.smtp_response = t.response, !.sent_at = "t"]

\* The failed update leaving retry_count as it is.
UpdatedFailed_KeepsCount(rec, t) ==
    [rec EXCEPT !.status = "failed", !.error_message = t.response,
                !.failed_at = "t"]

\* The failed update leaving the error text out.
UpdatedFailed_NoDetail(rec, t) ==
    [rec EXCEPT !.status = "failed", !.failed_at = "t", !.retry_count = @ + 1]

\* UPDATE ... SET status = 'failed', error_message, failed_at,
\*                retry_count = retry_count + 1
UpdatedFailed(rec, t) ==
    [rec EXCEPT !.status = "failed", !.error_message = t.response,
                !.failed_at = "t", !.retry_count = @ + 1]

\* The two branches of send_email exchanged.
Updated_Swapped(rec, t) ==
    IF t.success
    THEN [rec EXCEPT !.status = "failed", !.error_message = t.response,
                     !.failed_at = "t", !.retry_count = @ + 1]
    ELSE [rec EXCEPT !.status = "sent", !.message_id = t.message_id,
                     !.smtp_response = t.response, !.sent_at = "t"]

\* The status send_email asks _update_email_status to record.
Updated(rec, t) ==
    IF t.success THEN UpdatedSent(rec, t) ELSE UpdatedFailed(rec, t)

\* send_email, third statement: _update_email_status, which returns at
\* once without an email_id and swallows any exception of the update.
UpdateStatus(r) ==
    /\ thr[r].pc = "attempted"
    /\ IF thr[r].email_id = None
       THEN /\ thr' = [thr EXCEPT ![r].pc = "done"]
            /\ UNCHANGED <<emails_sent, env>>
       ELSE \E out \in GatewayOutcomes :
               LET id == thr[r].email_id[1] IN
               /\ thr' = [thr EXCEPT ![r].pc = "done"]
               /\ IF out = "ok"
                  THEN /\ emails_sent' =
                              [emails_sent EXCEPT
                                  ![id] = Updated(emails_sent[id], thr[r])]
                       /\ env' = [env EXCEPT ![r].update = "ok"]
                  ELSE /\ emails_sent' = emails_sent
                       /\ env' = [env EXCEPT ![r].update = "fail"]
    /\ UNCHANGED aux
    /\ UNCHANGED <<phase, pool, email_service, project_submissions, req>>

\* ----------------------------------------------------------- specification

Next ==
    \/ Startup
    \/ Shutdown
    \/ \E r \in Requests, sub \in Submissions : Submit(r, sub)
    \/ \E r \in Requests : EmailStep(r)
    \/ \E r \in Requests : Respond(r)
    \/ \E r \in Requests : CreateRecord(r)
    \/ \E r \in Requests : SendSmtp(r)
    \/ \E r \in Requests : UpdateStatus(r)

Spec == Init /\ [][Next]_vars

\* ------------------------------------------------- Database, step by step

\* The outcomes of one statement on a connection: closeall closes the
\* connections that are checked out as well, after which every statement
\* on them raises; an open connection can still be lost.
StatementOutcomes(c) ==
    IF pools[call[c].p].closed THEN {"raise"} ELSE {"ok", "raise"}

\* initialize_pool, the test `if self._pool is None`.
InitCheck(i) ==
    /\ init[i] = "idle"
    /\ init' = [init EXCEPT ![i] = IF db_pool = 0 THEN "checked" ELSE "done"]
    /\ UNCHANGED <<db_pool, pools, call, closer>>
    /\ UNCHANGED <<pipe, smtp, intake, admin, render>>

\* The number of the next pool object.
NewPool == CHOOSE p \in PoolIds :
               /\ ~pools[p].created
               /\ \A o \in PoolIds : o < p => pools[o].created

\* initialize_pool, the assignment `self._pool = ThreadedConnectionPool(..)`
\* after the test succeeded; psycopg2.Error is printed and re-raised.
InitCreate(i) ==
    /\ init[i] = "checked"
    /\ \E out \in {"ok", "raise"} :
          IF out = "ok"
          THEN /\ pools' = [pools EXCEPT ![NewPool].created = TRUE]
               /\ db_pool' = NewPool
               /\ init' = [init EXCEPT ![i] = "done"]
          ELSE /\ init' = [init EXCEPT ![i] = "failed"]
               /\ UNCHANGED <<db_pool, pools>>
    /\ UNCHANGED <<call, closer>>
    /\ UNCHANGED <<pipe, smtp, intake, admin, render>>

\* close_pool, `self._pool.closeall()` when there is a pool.
CloseAll ==
    /\ closer = "idle"
    /\ IF db_pool = 0
       THEN /\ closer' = "done"
            /\ pools' = pools
       ELSE /\ closer' = "closing"
            /\ pools' = [pools EXCEPT ![db_pool].closed = TRUE]
    /\ UNCHANGED <<db_pool, call, init>>
    /\ UNCHANGED <<pipe, smtp, intake, admin, render>>

\* close_pool, `self._pool = None`.
ClearPool ==
    /\ closer = "closing"
    /\ db_pool' = 0
    /\ closer' = "done"
    /\ UNCHANGED <<pools, call, init>>
    /\ UNCHANGED <<pipe, smtp, intake, admin, render>>

\* A gateway call enters get_connection: RuntimeError without a pool.
Call(c) ==
    /\ call[c].pc = "idle"
    /\ call' = [call EXCEPT ![c] =
                   IF db_pool = 0
                   THEN [NoCall EXCEPT !.pc = "returned",
                                       !.exc = "RuntimeError"]
                   ELSE [NoCall EXCEPT !.pc = "getconn"]]
    /\ UNCHANGED <<db_pool, pools, init, closer>>
    /\ UNCHANGED <<pipe, smtp, intake, admin, render>>

\* A pool that hands out a connection although all are checked out.
CanAcquire_Unbounded(p) == ~pools[p].closed

\* getconn gives a connection: PoolError when the pool is closed or all
\* max_connections are checked out.
CanAcquire(p) == ~pools[p].closed /\ Cardinality(pools[p].used) < MaxConn

\* The connection getconn hands out: one that is not checked out (the
\* connections of a pool are numbered from 1).
FreeConn(p) ==
    CHOOSE k \in 1..(Cardinality(pools[p].used) + 1) :
        /\ k \notin pools[p].used
        /\ \A o \in 1..(Cardinality(pools[p].used) + 1) :
               o \notin pools[p].used => k <= o

\* `conn = self._pool.getconn()`: _pool is read again; the pool never
\* waits, it raises PoolError, and connecting can fail.
GetConn(c) ==
    /\ call[c].pc = "getconn"
    /\ \/ /\ db_pool # 0
          /\ CanAcquire(db_pool)
          /\ pools' = [pools EXCEPT ![db_pool].used = @ \cup {FreeConn(db_pool)}]
          /\ call' = [call EXCEPT ![c].pc = "cursor", ![c].p = db_pool,
                                  ![c].conn = FreeConn(db_pool)]
       \/ /\ db_pool # 0
          /\ CanAcquire(db_pool)
          /\ call' = [call EXCEPT ![c].pc = "returned",
                                  ![c].exc = "OperationalError"]
          /\ pools' = pools
       \/ /\ db_pool # 0
          /\ ~CanAcquire(db_pool)
          /\ call' = [call EXCEPT ![c].pc = "returned",
                                  ![c].exc = "PoolError"]
          /\ pools' = pools
       \/ /\ db_pool = 0
          /\ call' = [call EXCEPT ![c].pc = "returned",
                                  ![c].exc = "AttributeError"]
          /\ pools' = pools
    /\ UNCHANGED <<db_pool, init, closer>>
    /\ UNCHANGED <<pipe, smtp, intake, admin, render>>

\* get_cursor, `cursor = conn.cursor(..)`: outside the try of get_cursor,
\* inside the try/finally of get_connection.
Cursor(c) ==
    /\ call[c].pc = "cursor"
    /\ call' = [call EXCEPT ![c] =
                   IF pools[call[c].p].closed
                   THEN [@ EXCEPT !.pc = "putconn", !.exc = "cursor"]
                   ELSE [@ EXCEPT !.pc = "body"]]
    /\ UNCHANGED <<db_pool, pools, init, closer>>
    /\ UNCHANGED <<pipe, smtp, intake, admin, render>>

\* The body of the with block: cursor.execute / executemany / fetch*.
Execute(c) ==
    /\ call[c].pc = "body"
    /\ \E out \in StatementOutcomes(c) :
          call' = [call EXCEPT ![c] =
                      IF out = "ok"
                      THEN [@ EXCEPT !.pc = "commit", !.body_ok = TRUE]
                      ELSE [@ EXCEPT !.pc = "rollback", !.exc = "body"]]
    /\ UNCHANGED <<db_pool, pools, init, closer>>
    /\ UNCHANGED <<pipe, smtp, intake, admin, render>>

\* `conn.commit()`, inside the try.
Commit(c) ==
    /\ call[c].pc = "commit"
    /\ \E out \in StatementOutcomes(c) :
          call' = [call EXCEPT ![c] =
                      IF out = "ok"
                      THEN [@ EXCEPT !.pc = "putconn", !.committed = TRUE]
                      ELSE [@ EXCEPT !.pc = "rollback", !.exc = "commit"]]
    /\ UNCHANGED <<db_pool, pools, init, closer>>
    /\ UNCHANGED <<pipe, smtp, intake, admin, render>>

\* `except Exception: conn.rollback(); raise`: an exception of rollback
\* itself leaves the handler in place of the one being handled.
Rollback(c) ==
    /\ call[c].pc = "rollback"
    /\ \E out \in StatementOutcomes(c) :
          call' = [call EXCEPT ![c] =
                      IF out = "ok"
                      THEN [@ EXCEPT !.pc = "putconn", !.rolled_back = TRUE]
                      ELSE [@ EXCEPT !.pc = "putconn", !.exc = "rollback"]]
    /\ UNCHANGED <<db_pool, pools, init, closer>>
    /\ UNCHANGED <<pipe, smtp, intake, admin, render>>

\* putconn takes the connection back: not without a pool (AttributeError
\* on None), not into a closed pool, not into another pool than its own.
CanRelease(c) ==
    /\ db_pool # 0
    /\ db_pool = call[c].p
    /\ ~pools[db_pool].closed

\* `finally: cursor.close()` and `finally: self._pool.putconn(conn)`:
\* _pool is read a third time; an exception here replaces the one in flight.
PutConn(c) ==
    /\ call[c].pc = "putconn"
    /\ IF CanRelease(c)
       THEN /\ pools' = [pools EXCEPT ![db_pool].used = @ \ {call[c].conn}]
            /\ call' = [call EXCEPT ![c].pc = "returned",
                                    ![c].released = @ + 1]
       ELSE /\ pools' = pools
            /\ call' = [call EXCEPT ![c].pc = "returned",
                                    ![c].exc = "putconn"]
    /\ UNCHANGED <<db_pool, init, closer>>
    /\ UNCHANGED <<pipe, smtp, intake, admin, render>>

\* A caller that keeps the connection of its last call for the next one.
Return_KeepsConn(c) ==
    /\ call[c].pc = "returned"
    /\ call' = [call EXCEPT ![c] =
                   IF call[c].released > 0
                   THEN [NoCall EXCEPT !.pc = "cursor", !.p = call[c].p,
                                       !.conn = call[c].conn]
                   ELSE NoCall]
    /\ UNCHANGED <<db_pool, pools, init, closer>>
    /\ UNCHANGED <<pipe, smtp, intake, admin, render>>

\* The caller goes on and may call the gateway again.
Return(c) ==
    /\ call[c].pc = "returned"
    /\ call' = [call EXCEPT ![c] = NoCall]
    /\ UNCHANGED <<db_pool, pools, init, closer>>
    /\ UNCHANGED <<pipe, smtp, intake, admin, render>>

\* The program as it runs: lifespan calls initialize_pool once at startup
\* and close_pool once at shutdown; handlers and delivery threads call the
\* gateway at any time.
NextGw ==
    \/ InitCheck("lifespan")
    \/ InitCreate("lifespan")
    \/ CloseAll
    \/ ClearPool
    \/ \E c \in Callers : Call(c)
    \/ \E c \in Callers : GetConn(c)
    \/ \E c \in Callers : Cursor(c)
    \/ \E c \in Callers : Execute(c)
    \/ \E c \in Callers : Commit(c)
    \/ \E c \in Callers : Rollback(c)
    \/ \E c \in Callers : PutConn(c)
    \/ \E c \in Callers : Return(c)

SpecGw == Init /\ [][NextGw]_vars

\* The Database object used as a library: initialize_pool called from two
\* threads, close_pool, and one caller of the gateway.
OneCaller == {c \in Callers : \A o \in Callers : c <= o}

NextInit ==
    \/ \E i \in Initializers : InitCheck(i)
    \/ \E i \in Initializers : InitCreate(i)
    \/ CloseAll
    \/ ClearPool
    \/ \E c \in OneCaller : Call(c)
    \/ \E c \in OneCaller : GetConn(c)
    \/ \E c \in OneCaller : Cursor(c)
    \/ \E c \in OneCaller : Execute(c)
    \/ \E c \in OneCaller : Commit(c)
    \/ \E c \in OneCaller : Rollback(c)
    \/ \E c \in OneCaller : PutConn(c)
    \/ \E c \in OneCaller : Return(c)

SpecInit == Init /\ [][NextInit]_vars

\* ------------------------------------------------------------------ claims

Done(r) == req[r].pc = "done"

\* The EmailRecord the thread of request r created, when it holds its id.
RecordOf(r) == emails_sent[thr[r].email_id[1]]

\* C1: when the save of a validated submission fails (no pool, database
\* unreachable, query error, no row), the response still has success = true,
\* submission_id = null and db_saved = false, and the email step is carried
\* out: email_queued = true whenever contact_email is non-empty (here even
\* granted that the delivery thread could be started).
C1_PersistFailureStillQueues ==
    \A r \in Requests :
        (Done(r) /\ env[r].persist = "fail" /\ env[r].start # "fail") =>
            /\ req[r].response.success = TRUE
            /\ req[r].response.submission_id = None
            /\ req[r].response.db_saved = FALSE
            /\ req[r].sub.contact_email # "" =>
                   req[r].response.email_queued = TRUE

\* C2: for a submission with non-empty contact_email, with the database
\* and the relay answering every call and the process running, the response
\* is success = true, a non-null submission_id, db_saved = true and
\* email_queued = true, and once the delivery thread has finished an
\* EmailRecord linked to that id is in status sent.
C2_EndToEndDelivered ==
    \A r \in Requests :
        (/\ Done(r)
         /\ phase = "running"
         /\ req[r].sub.contact_email # ""
         /\ env[r].persist = "ok"
         /\ env[r].start # "fail") =>
            /\ req[r].response.success = TRUE
            /\ req[r].response.submission_id # None
            /\ req[r].response.db_saved = TRUE
            /\ req[r].response.email_queued = TRUE
            /\ (/\ thr[r].pc = "done"
                /\ thr[r].success
                /\ env[r].create = "ok"
                /\ env[r].update = "ok") =>
                   \E id \in DOMAIN emails_sent :
                       /\ emails_sent[id].submission_id =
                              req[r].response.submission_id
                       /\ emails_sent[id].status = "sent"

\* C3: every accepted submission with a non-empty contact_email, whatever
\* its other fields hold (a contact_name of whitespace included), has its
\* confirmation email rendered and a delivery thread dispatched, and its
\* response has email_queued = true (granted that a thread could be started).
C3_EmailPresentMeansQueued ==
    \A r \in Requests :
        (Done(r) /\ req[r].sub.contact_email # "" /\ env[r].start # "fail") =>
            /\ thr[r].pc # "none"
            /\ req[r].response.email_queued = TRUE

\* C4: for a submission with an empty contact_email the response has
\* email_queued = false, no EmailRecord is created for the call and the
\* relay is never contacted for it.
C4_NoEmailWithoutAddress ==
    /\ \A r \in Requests :
           req[r].sub.contact_email = "" =>
               /\ thr[r].pc = "none"
               /\ env[r].start = "-"
               /\ env[r].create = "-"
               /\ env[r].attempts = 0
               /\ req[r].email_sent = FALSE
               /\ Done(r) => req[r].response.email_queued = FALSE
    /\ \A id \in DOMAIN emails_sent : emails_sent[id].to_email # ""

\* C4's case: a submission without contact_email was saved and answered
\* while another request's email was recorded.
C4_Witness ==
    \E r \in Requests :
        /\ Done(r)
        /\ req[r].sub.contact_email = ""
        /\ req[r].response.db_saved = TRUE
        /\ emails_sent # <<>>

\* The thread of request r contacts the relay in this step.
AttemptStarts(r) == env'[r].attempts > env[r].attempts

\* C5 as claimed: no delivery attempt is started unless the EmailRecord of
\* that attempt exists in status pending, also when the database is
\* unavailable or the insert fails.
C5_RecordBeforeAttempt ==
    [][\A r \in Requests :
          AttemptStarts(r) =>
              /\ thr[r].email_id # None
              /\ RecordOf(r).status = "pending"]_vars

\* C5 amended: an attempt is started only after send_email has tried to
\* create the EmailRecord; when the insert succeeded the record, holding the
\* recipient and submission link of the call, is pending at that moment;
\* when it failed the attempt is made with no record (email_id None).
C5_AttemptAfterCreateStep ==
    [][\A r \in Requests :
          AttemptStarts(r) =>
              /\ env[r].create \in {"ok", "fail"}
              /\ env[r].create = "fail" <=> thr[r].email_id = None
              /\ thr[r].email_id # None =>
                     /\ thr[r].email_id[1] \in DOMAIN emails_sent
                     /\ RecordOf(r).status = "pending"
                     /\ RecordOf(r).to_email = thr[r].to_email
                     /\ RecordOf(r).submission_id = thr[r].submission_id]_vars

\* C5's case: the relay has been contacted for a record that is pending,
\* and for another call whose insert failed.
C5_Witness ==
    \E r, o \in Requests :
        /\ thr[r].pc = "attempted"
        /\ thr[r].email_id # None
        /\ RecordOf(r).status = "pending"
        /\ thr[o].pc = "attempted"
        /\ thr[o].email_id = None

\* The record the claim expects after the terminal update of a thread's
\* result: sent with message id and response, or failed with the detail.
ExpectedRecord(t) ==
    IF t.success
    THEN [NewEmailRecord(t) EXCEPT !.status = "sent",
                                   !.message_id = t.message_id,
                                   !.smtp_response = t.response,
                                   !.sent_at = "t"]
    ELSE [NewEmailRecord(t) EXCEPT !.status = "failed",
                                   !.error_message = t.response,
                                   !.failed_at = "t",
                                   !.retry_count = 1]

\* C6 as claimed: whenever a delivery attempt has completed, its
\* EmailRecord has received its terminal update: sent with message id and
\* response after a success, failed with the detail otherwise.
C6_TerminalUpdateAlways ==
    \A r \in Requests :
        (thr[r].pc = "done" /\ thr[r].email_id # None) =>
            RecordOf(r) = ExpectedRecord(thr[r])

\* C6 amended: an EmailRecord is written at most once after its insert, by
\* the step of its own thread that ends a completed attempt; when the update
\* statement commits the record is sent with message id and response after
\* a success and failed with the detail otherwise; when the update raises
\* the record stays as inserted, pending. This holds whether submit_project
\* has returned or not.
C6_AtMostOneTerminalUpdate ==
    /\ [](\A r \in Requests :
             thr[r].email_id # None =>
                 /\ thr[r].pc # "done" => RecordOf(r) = NewEmailRecord(thr[r])
                 /\ (thr[r].pc = "done" /\ env[r].update = "ok") =>
                        RecordOf(r) = ExpectedRecord(thr[r])
                 /\ (thr[r].pc = "done" /\ env[r].update # "ok") =>
                        RecordOf(r) = NewEmailRecord(thr[r]))
    /\ [][\A id \in DOMAIN emails_sent :
             emails_sent'[id] # emails_sent[id] =>
                 /\ emails_sent[id].status = "pending"
                 /\ \E r \in Requests :
                        /\ thr[r].email_id = StrId(id)
                        /\ thr[r].pc = "attempted"
                        /\ thr'[r].pc = "done"]_vars

\* C6's case: one record updated to failed after submit_project returned,
\* one updated to sent before its handler returned.
C6_Witness ==
    \E r, o \in Requests :
        /\ Done(r)
        /\ thr[r].pc = "done" /\ thr[r].email_id # None
        /\ RecordOf(r).status = "failed"
        /\ req[o].pc = "dispatched"
        /\ thr[o].pc = "done" /\ thr[o].email_id # None
        /\ RecordOf(o).status = "sent"

\* C7: an EmailRecord starts pending and changes status at most once, to
\* sent or to failed; once sent or failed it never changes again; the retry
\* counter changes only in an update that sets failed, by one, and never in
\* one that sets sent; no record is removed.
C7_StatusTransitions ==
    [][/\ Len(emails_sent') >= Len(emails_sent)
       /\ \A id \in DOMAIN emails_sent' :
             IF id \in DOMAIN emails_sent
             THEN LET a == emails_sent[id]
                      b == emails_sent'[id]
                  IN /\ a.status # "pending" => b = a
                     /\ b.status \in {"pending", "sent", "failed"}
                     /\ b.retry_count # a.retry_count =>
                            /\ b.status = "failed"
                            /\ b.retry_count = a.retry_count + 1
                     /\ b.status = "sent" => b.retry_count = a.retry_count
             ELSE /\ emails_sent'[id].status = "pending"
                  /\ emails_sent'[id].retry_count = 0]_vars

\* C7's case: a record that went to sent with its counter untouched beside
\* one that went to failed with its counter at one.
C7_Witness ==
    \E a, b \in DOMAIN emails_sent :
        /\ emails_sent[a].status = "sent" /\ emails_sent[a].retry_count = 0
        /\ emails_sent[b].status = "failed" /\ emails_sent[b].retry_count = 1

\* The thread of request r runs _create_email_record in this step.
CreateStep(r) == thr[r].pc = "start" /\ thr'[r].pc = "created"

\* The email the thread of r is to send was already attempted, and failed,
\* under record id: same recipient, same submission link.
RetryOf(r, id) ==
    /\ emails_sent[id].status = "failed"
    /\ emails_sent[id].to_email = thr[r].to_email
    /\ emails_sent[id].submission_id = thr[r].submission_id

\* C8: a delivery attempt that retries an email whose earlier attempt
\* failed counts on the existing EmailRecord and creates no new one: the
\* number of EmailRecords does not grow.
C8_RetryKeepsRecordCount ==
    [][\A r \in Requests :
          (CreateStep(r) /\ \E id \in DOMAIN emails_sent : RetryOf(r, id)) =>
              Len(emails_sent') = Len(emails_sent)]_vars

\* What the response of request r may show of the failures on its way.
ExpectedResponse(r) ==
    [success |-> TRUE,
     submission_id |-> req[r].submission_id,
     db_saved |-> (env[r].persist = "ok"),
     email_queued |-> /\ req[r].sub.contact_email # ""
                      /\ ~RenderRaises(req[r].sub)
                      /\ env[r].start = "ok"]

\* C9: whatever fails on the way (save, render, thread start, record
\* insert, delivery, status update), no exception leaves submit_project, the
\* handler is never held up, and its response has success = true; a failed
\* save shows as db_saved = false with submission_id null, a failed email
\* step as email_queued = false, and nothing else of the failures shows.
C9_FailuresContained ==
    \A r \in Requests :
        /\ req[r].pc # "crashed"
        /\ req[r].pc = "persisted" => ENABLED EmailStep(r)
        /\ req[r].pc = "dispatched" => ENABLED Respond(r)
        /\ (req[r].submission_id = None) <=> (env[r].persist \in {"-", "fail"})
        /\ Done(r) => req[r].response = ExpectedResponse(r)

\* C9's case: a request answered after its save failed, whose record
\* insert and delivery failed too, and one whose thread could not start.
C9_Witness ==
    \E r, o \in Requests :
        /\ Done(r) /\ env[r].persist = "fail"
        /\ thr[r].pc = "done" /\ env[r].create = "fail" /\ ~thr[r].success
        /\ Done(o) /\ env[o].start = "fail"

\* Two responses agree, a generated id standing for any other.
SameResponse(a, b) ==
    /\ a.success = b.success
    /\ a.db_saved = b.db_saved
    /\ a.email_queued = b.email_queued
    /\ (a.submission_id = None) <=> (b.submission_id = None)

\* C10: the response does not depend on the delivery: two calls with the
\* same submission, the same outcome of the save and of the thread start
\* return the same response whatever the relay answers to either; a refusal
\* shows only on the EmailRecord, as failed with the detail, when the status
\* update commits.
C10_ResponseIgnoresDelivery ==
    /\ \A r, o \in Requests :
           (/\ Done(r) /\ Done(o)
            /\ req[r].sub = req[o].sub
            /\ env[r].persist = env[o].persist
            /\ env[r].start = env[o].start) =>
               SameResponse(req[r].response, req[o].response)
    /\ \A r \in Requests :
           (/\ thr[r].pc = "done" /\ ~thr[r].success
            /\ thr[r].email_id # None /\ env[r].update = "ok") =>
               /\ RecordOf(r).status = "failed"
               /\ RecordOf(r).error_message = thr[r].response
               /\ RecordOf(r).error_message # Null
               /\ req[r].email_sent = TRUE

\* C10's case: the same submission answered twice alike, the relay having
\* taken one message before its response and refused the other.
C10_Witness ==
    \E r, o \in Requests :
        /\ Done(r) /\ Done(o) /\ r # o
        /\ req[r].sub = req[o].sub
        /\ req[r].response.email_queued /\ req[o].response.email_queued
        /\ req[r].response.db_saved /\ req[o].response.db_saved
        /\ thr[r].pc = "done" /\ thr[r].success
        /\ thr[o].pc = "done" /\ ~thr[o].success
        /\ thr[o].email_id # None
        /\ RecordOf(o).status = "failed"

\* The email step of request r failed: render, thread start, record
\* insert, delivery or status update.
EmailStepFailed(r) ==
    \/ RenderRaises(req[r].sub) /\ req[r].pc \in {"dispatched", "done"}
    \/ env[r].start = "fail"
    \/ env[r].create = "fail"
    \/ env[r].update = "fail"
    \/ thr[r].pc \in {"attempted", "done"} /\ ~thr[r].success

\* C11: a failure of the email step (render, record insert, thread start,
\* delivery, status update) never removes or changes the Submission row the
\* save committed, and never changes the submission_id and db_saved the
\* request returns: they are the ones the save produced.
C11_EmailFailureKeepsSubmission ==
    /\ [][/\ Len(project_submissions') >= Len(project_submissions)
          /\ \A id \in DOMAIN project_submissions :
                 project_submissions'[id] = project_submissions[id]
          /\ \A r \in Requests :
                 req[r].pc \in {"persisted", "dispatched", "done"} =>
                     /\ req'[r].submission_id = req[r].submission_id
                     /\ req'[r].db_saved = req[r].db_saved]_vars
    /\ [](\A r \in Requests :
             (Done(r) /\ env[r].persist = "ok") =>
                 /\ req[r].response.db_saved = TRUE
                 /\ req[r].response.submission_id # None
                 /\ req[r].response.submission_id[1] \in
                        DOMAIN project_submissions
                 /\ project_submissions[req[r].response.submission_id[1]] =
                        SubmissionRow(req[r].sub))

\* C11's case: a saved submission answered after its rendering raised, and
\* another whose delivery was refused, both rows in place.
C11_Witness ==
    \E r, o \in Requests :
        /\ Done(r) /\ req[r].response.db_saved /\ RenderRaises(req[r].sub)
        /\ req[r].sub.contact_email # ""
        /\ Done(o) /\ req[o].response.db_saved
        /\ thr[o].pc = "done" /\ ~thr[o].success
        /\ EmailStepFailed(r) /\ EmailStepFailed(o)
        /\ Len(project_submissions) = 2

\* The delivery thread of request r has work left.
InFlight(r) == thr[r].pc \in {"start", "created", "attempted"}

\* C12: submit_project does not wait for the background delivery, and the
\* delivery does not wait for the response: whatever the thread's position
\* the handler can answer, whatever the handler's position the thread can
\* take its next step, and answering touches neither thread nor records.
C12_ResponseAndDeliveryUnordered ==
    /\ [](\A r \in Requests :
             /\ req[r].pc = "dispatched" => ENABLED Respond(r)
             /\ thr[r].pc = "start" => ENABLED CreateRecord(r)
             /\ thr[r].pc = "created" => ENABLED SendSmtp(r)
             /\ thr[r].pc = "attempted" => ENABLED UpdateStatus(r))
    /\ [][\A r \in Requests :
             (req[r].pc = "dispatched" /\ req'[r].pc = "done") =>
                 UNCHANGED <<thr, emails_sent>>]_vars

\* C12's case, both orderings in one state: one request answered with
\* email_queued = true while its record is not yet inserted, the next one
\* about to answer after its record reached a terminal status.
C12_Witness ==
    \E r, o \in Requests :
        /\ Done(r) /\ req[r].response.email_queued
        /\ thr[r].pc = "start" /\ thr[r].email_id = None
        /\ req[o].pc = "dispatched" /\ req[o].email_sent
        /\ thr[o].pc = "done" /\ thr[o].email_id # None
        /\ RecordOf(o).status \in {"sent", "failed"}

\* C13: once the process has shut down (close_pool), no EmailRecord
\* changes any more: the record of a delivery in flight stays `pending`
\* with the fields it was created with, the status update of an abandoned
\* delivery has no effect, every status is pending, sent or failed.
C13_ShutdownLeavesPending ==
    /\ [][(phase = "stopped" \/ phase' = "stopped") =>
              UNCHANGED emails_sent]_vars
    /\ [](\A id \in DOMAIN emails_sent :
             emails_sent[id].status \in {"pending", "sent", "failed"})
    /\ [](\A r \in Requests :
             (InFlight(r) /\ thr[r].email_id # None) =>
                 RecordOf(r) = NewEmailRecord(thr[r]))

\* C13's case: after shutdown one delivery still in flight with its record
\* pending, one whose status update came too late and left the record
\* pending, next to each other.
C13_Witness ==
    \E r, o \in Requests :
        /\ phase = "stopped"
        /\ thr[r].pc = "attempted" /\ thr[r].email_id # None
        /\ RecordOf(r).status = "pending"
        /\ thr[o].pc = "done" /\ thr[o].email_id # None
        /\ env[o].update = "fail"
        /\ RecordOf(o) = NewEmailRecord(thr[o])

\* Requests whose delivery made at least one network attempt, and requests
\* whose handler dispatched a delivery (email_queued = true in its response).
Attempted == {r \in Requests : env[r].attempts >= 1}
Queued == {r \in Requests : req[r].email_sent}

\* C19 (amended): each dispatched delivery makes at most one network attempt
\* whatever its outcome, only a delivery whose handler has set email_queued
\* = true makes one, so that attempts never outnumber the dispatched
\* requests (each of which is answered email_queued = true, possibly after
\* the attempt); the attempt writes nothing but the state of its own call.
C19_OneAttemptPerDispatch ==
    /\ [](\A r \in Requests :
             /\ env[r].attempts <= 1
             /\ env[r].attempts = 1 <=> thr[r].pc \in {"attempted", "done"}
             /\ env[r].attempts = 1 => req[r].email_sent
             /\ (Done(r) /\ env[r].attempts = 1) =>
                    req[r].response.email_queued)
    /\ [](Cardinality(Attempted) <= Cardinality(Queued))
    /\ [][\A r \in Requests :
             env'[r].attempts # env[r].attempts =>
                 /\ env'[r].attempts = env[r].attempts + 1
                 /\ thr[r].pc = "created" /\ thr'[r].pc = "attempted"
                 /\ \A o \in Requests \ {r} : thr'[o] = thr[o]
                 /\ UNCHANGED <<phase, pool, email_service, req,
                                project_submissions, emails_sent>>]_vars

\* C19 as stated: the number of delivery attempts never exceeds the number
\* of submit calls that have returned email_queued = true.
C19_AttemptsWithinReturned ==
    Cardinality(Attempted) <=
        Cardinality({r \in Requests : Done(r) /\ req[r].response.email_queued})

\* C19's case: two deliveries finished, one refused and one accepted, each
\* after a single attempt, both requests answered email_queued = true.
C19_Witness ==
    \E r, o \in Requests :
        /\ Done(r) /\ req[r].response.email_queued
        /\ Done(o) /\ req[o].response.email_queued
        /\ thr[r].pc = "done" /\ ~thr[r].success /\ env[r].attempts = 1
        /\ thr[o].pc = "done" /\ thr[o].success /\ env[o].attempts = 1

\* C26: in every response of submit_project db_saved is true exactly when
\* submission_id is not null, and then a row with that id and the submitted
\* contact fields is in project_submissions, committed before the handler
\* went on to the email step and the response.
C26_SavedIffIdAndRowCommitted ==
    \A r \in Requests :
        /\ req[r].pc \in {"persisted", "dispatched", "done"} =>
              /\ req[r].db_saved <=> req[r].submission_id # None
              /\ req[r].db_saved =>
                    /\ req[r].submission_id[1] \in DOMAIN project_submissions
                    /\ project_submissions[req[r].submission_id[1]] =
                           SubmissionRow(req[r].sub)
        /\ Done(r) =>
              /\ req[r].response.db_saved <=>
                     req[r].response.submission_id # None
              /\ req[r].response.db_saved = req[r].db_saved
              /\ req[r].response.submission_id = req[r].submission_id

\* C26's case: one response with db_saved = true and its row, one with
\* db_saved = false and a null id after a failed save.
C26_Witness ==
    \E r, o \in Requests :
        /\ Done(r) /\ req[r].response.db_saved
        /\ req[r].response.submission_id # None
        /\ project_submissions[req[r].response.submission_id[1]] =
               SubmissionRow(req[r].sub)
        /\ Done(o) /\ ~req[o].response.db_saved
        /\ req[o].response.submission_id = None /\ env[o].persist = "fail"

\* The requests whose delivery thread inserted the record with this id.
OwnersOf(id) == {r \in Requests : thr[r].email_id = StrId(id)}

\* C27: every EmailRecord belongs to the delivery of exactly one request,
\* is linked to the submission_id that request's handler obtained and
\* returns (null when the save failed), and is addressed to that request's
\* contact_email; it is never linked to another request's submission.
C27_RecordLinkedToOwnSubmission ==
    /\ \A id \in DOMAIN emails_sent : Cardinality(OwnersOf(id)) = 1
    /\ \A r \in Requests :
          thr[r].email_id # None =>
              /\ thr[r].email_id[1] \in DOMAIN emails_sent
              /\ RecordOf(r).submission_id = req[r].submission_id
              /\ RecordOf(r).to_email = req[r].sub.contact_email
              /\ req[r].sub.contact_email # ""
              /\ Done(r) =>
                     RecordOf(r).submission_id = req[r].response.submission_id
              /\ \A o \in Requests \ {r} :
                     (RecordOf(r).submission_id # None) =>
                         RecordOf(r).submission_id # req[o].submission_id

\* C27's case: deliveries of two submissions running side by side, both
\* records inserted, one linked to its saved submission and one with a
\* null link after a failed save.
C27_Witness ==
    \E r, o \in Requests :
        /\ r # o
        /\ thr[r].email_id # None /\ thr[o].email_id # None
        /\ thr[r].pc = "created" /\ thr[o].pc = "created"
        /\ RecordOf(r).submission_id # None
        /\ RecordOf(r).submission_id = req[r].submission_id
        /\ RecordOf(o).submission_id = None /\ env[o].persist = "fail"

\* C28: every EmailRecord agrees with its status. pending: retry counter
\* 0, no message id, sent time, failed time or error text. sent: a
\* non-empty message id and a sent time, retry counter 0, no error text or
\* failed time. failed: an error text and a failed time, retry counter 1,
\* no message id or sent time.
C28_RecordMatchesStatus ==
    \A id \in DOMAIN emails_sent :
        LET rec == emails_sent[id] IN
        /\ rec.status \in {"pending", "sent", "failed"}
        /\ rec.status = "pending" =>
              /\ rec.retry_count = 0
              /\ rec.message_id = Null /\ rec.sent_at = Null
              /\ rec.failed_at = Null /\ rec.error_message = Null
        /\ rec.status = "sent" =>
              /\ rec.message_id \notin {Null, ""}
              /\ rec.sent_at # Null
              /\ rec.retry_count = 0
              /\ rec.error_message = Null /\ rec.failed_at = Null
        /\ rec.status = "failed" =>
              /\ rec.error_message \notin {Null, ""}
              /\ rec.failed_at # Null
              /\ rec.retry_count = 1
              /\ rec.message_id = Null /\ rec.sent_at = Null

\* C28's case: a sent and a failed record side by side.
C28_Witness ==
    \E a, b \in DOMAIN emails_sent :
        /\ emails_sent[a].status = "sent"
        /\ emails_sent[b].status = "failed"

\* ------------------------------------------------ _send_smtp, step by step

\* The exception classes of an SMTP session and the class each derives
\* from (smtplib; SSLError and UnicodeEncodeError from ssl and str.encode).
Parent ==
    [SMTPAuthenticationError |-> "SMTPResponseException",
     SMTPHeloError |-> "SMTPResponseException",
     SMTPConnectError |-> "SMTPResponseException",
     SMTPDataError |-> "SMTPResponseException",
     SMTPSenderRefused |-> "SMTPResponseException",
     SMTPResponseException |-> "SMTPException",
     SMTPRecipientsRefused |-> "SMTPException",
     SMTPServerDisconnected |-> "SMTPException",
     SMTPNotSupportedError |-> "SMTPException",
     SMTPException |-> "OSError",
     SSLError |-> "OSError",
     OSError |-> "Exception",
     UnicodeEncodeError |-> "Exception",
     Exception |-> "BaseException"]

RECURSIVE IsInstance(_, _)
IsInstance(cls, of) ==
    \/ cls = of
    \/ cls \in DOMAIN Parent /\ IsInstance(Parent[cls], of)

\* The except clauses of _send_smtp in the order they are written, each
\* with the detail it returns.
ExceptClauses ==
    << [class |-> "SMTPAuthenticationError", detail |-> "Authentication failed"],
       [class |-> "SMTPRecipientsRefused", detail |-> "Recipient refused"],
       [class |-> "SMTPException", detail |-> "SMTP error"],
       [class |-> "Exception", detail |-> "Unexpected error"] >>

\* The first clause that catches an exception of class cls (0: none does).
Handler(cls) ==
    IF \E i \in DOMAIN ExceptClauses : IsInstance(cls, ExceptClauses[i].class)
    THEN CHOOSE i \in DOMAIN ExceptClauses :
             /\ IsInstance(cls, ExceptClauses[i].class)
             /\ \A j \in DOMAIN ExceptClauses :
                    IsInstance(cls, ExceptClauses[j].class) => i <= j
    ELSE 0

\* What each statement of the session can raise.
ConnectRaises == {"SMTPConnectError", "SMTPServerDisconnected", "OSError"}
EhloRaises == {"SMTPHeloError", "SMTPServerDisconnected"}
StartTlsRaises ==
    {"SMTPNotSupportedError", "SMTPResponseException", "SSLError",
     "SMTPServerDisconnected"}
LoginRaises ==
    {"SMTPAuthenticationError", "SMTPNotSupportedError", "SMTPException",
     "SMTPServerDisconnected"}
SendmailRaises ==
    {"SMTPRecipientsRefused", "SMTPSenderRefused", "SMTPDataError",
     "SMTPServerDisconnected", "UnicodeEncodeError"}

\* `smtplib.SMTP(host, port)`: an exception of the constructor is raised
\* before the with block is entered.
SmtpConnect(r) ==
    /\ smtp[r].pc = "idle"
    /\ \/ smtp' = [smtp EXCEPT ![r].pc = "connected"]
       \/ \E e \in ConnectRaises :
              smtp' = [smtp EXCEPT ![r].pc = "left", ![r].exc = e]
    /\ UNCHANGED <<pipe, gwv, intake, admin, render>>

\* `server.ehlo()`: a statement inside the with block succeeds, or it
\* raises and the with block is left.
SmtpEhlo(r) ==
    /\ smtp[r].pc = "connected"
    /\ \/ smtp' = [smtp EXCEPT ![r].pc = "greeted"]
       \/ \E e \in EhloRaises :
              smtp' = [smtp EXCEPT ![r].pc = "leaving", ![r].exc = e]
    /\ UNCHANGED <<pipe, gwv, intake, admin, render>>

\* `server.starttls(context=context)`.
SmtpStartTls(r) ==
    /\ smtp[r].pc = "greeted"
    /\ \/ smtp' = [smtp EXCEPT ![r].pc = "tls"]
       \/ \E e \in StartTlsRaises :
              smtp' = [smtp EXCEPT ![r].pc = "leaving", ![r].exc = e]
    /\ UNCHANGED <<pipe, gwv, intake, admin, render>>

\* `server.ehlo()` on the encrypted connection.
SmtpEhloAgain(r) ==
    /\ smtp[r].pc = "tls"
    /\ \/ smtp' = [smtp EXCEPT ![r].pc = "regreeted"]
       \/ \E e \in EhloRaises :
              smtp' = [smtp EXCEPT ![r].pc = "leaving", ![r].exc = e]
    /\ UNCHANGED <<pipe, gwv, intake, admin, render>>

\* `server.login(self.smtp_user, self.smtp_password)`.
SmtpLogin(r) ==
    /\ smtp[r].pc = "regreeted"
    /\ \/ smtp' = [smtp EXCEPT ![r].pc = "loggedin"]
       \/ \E e \in LoginRaises :
              smtp' = [smtp EXCEPT ![r].pc = "leaving", ![r].exc = e]
    /\ UNCHANGED <<pipe, gwv, intake, admin, render>>

\* `response = server.sendmail(..)` and the return statement that
\* follows, which leaves the with block.
SmtpSendmail(r) ==
    /\ smtp[r].pc = "loggedin"
    /\ \/ smtp' = [smtp EXCEPT ![r].pc = "leaving", ![r].accepted = TRUE]
       \/ \E e \in SendmailRaises :
              smtp' = [smtp EXCEPT ![r].pc = "leaving", ![r].exc = e]
    /\ UNCHANGED <<pipe, gwv, intake, admin, render>>

\* Leaving the with block, SMTP.__exit__: QUIT is sent; a reply other than
\* 221 raises SMTPResponseException, which takes the place of the return
\* value or of the exception in flight; SMTPServerDisconnected is passed.
SmtpQuit(r) ==
    /\ smtp[r].pc = "leaving"
    /\ \/ smtp' = [smtp EXCEPT ![r].pc = "left"]
       \/ /\ smtp[r].exc # "SMTPServerDisconnected"
          /\ smtp' = [smtp EXCEPT ![r].pc = "left",
                                  ![r].exc = "SMTPResponseException"]
    /\ UNCHANGED <<pipe, gwv, intake, admin, render>>

\* The return value, or the except clause that catches the exception; an
\* exception no clause catches leaves _send_smtp.
SmtpReturn(r) ==
    /\ smtp[r].pc = "left"
    /\ smtp' = [smtp EXCEPT ![r] =
                   IF smtp[r].exc = ""
                   THEN [@ EXCEPT !.pc = "returned",
                                  !.result = [success |-> TRUE,
                                              message_id |-> "<msgid>",
                                              response |-> "OK"]]
                   ELSE IF Handler(smtp[r].exc) = 0
                   THEN [@ EXCEPT !.pc = "raised"]
                   ELSE [@ EXCEPT !.pc = "returned",
                                  !.result =
                                      [success |-> FALSE, message_id |-> "",
                                       response |->
                                           ExceptClauses[Handler(smtp[r].exc)].detail]]]
    /\ UNCHANGED <<pipe, gwv, intake, admin, render>>

NextSmtp ==
    \/ \E r \in Requests : SmtpConnect(r)
    \/ \E r \in Requests : SmtpEhlo(r)
    \/ \E r \in Requests : SmtpStartTls(r)
    \/ \E r \in Requests : SmtpEhloAgain(r)
    \/ \E r \in Requests : SmtpLogin(r)
    \/ \E r \in Requests : SmtpSendmail(r)
    \/ \E r \in Requests : SmtpQuit(r)
    \/ \E r \in Requests : SmtpReturn(r)

SpecSmtp == Init /\ [][NextSmtp]_vars

\* ------------------------------------------ validation of the request body

\* Only contact_name and contact_email required.
Valid_PhoneOptional(payload) ==
    /\ payload.contact_name # MissingName
    /\ payload.contact_email # Missing
    /\ payload.budget \in {Missing, "1000"}

\* ProjectSubmission accepts the body: contact_name, contact_email and
\* contact_phone are declared `str` without default, budget is
\* Optional[float].
Valid(payload) ==
    /\ payload.contact_name # MissingName
    /\ payload.contact_email # Missing
    /\ payload.contact_phone # Missing
    /\ payload.budget \in {Missing, "1000"}

\* The ProjectSubmission the handler receives.
Parsed(payload) ==
    [contact_name |-> payload.contact_name,
     contact_email |-> payload.contact_email,
     contact_phone |-> payload.contact_phone]

\* POST /api/v1/contact arrives: the body is validated against
\* ProjectSubmission before submit_project is called; an invalid body is
\* answered 422 and the handler does not run.
Validate(r, payload) ==
    /\ phase = "running"
    /\ intake[r].pc = "none"
    /\ intake' = [intake EXCEPT ![r] =
                     [pc |-> IF Valid(payload) THEN "accepted" ELSE "rejected",
                      payload |-> payload]]
    /\ UNCHANGED <<pipe, gwv, smtp, admin, render>>

\* submit_project is called with the validated body.
Handle(r) ==
    /\ intake[r].pc = "accepted"
    /\ Submit(r, Parsed(intake[r].payload))

\* The first request posted.
FirstRequest == {r \in Requests : \A o \in Requests : r <= o}

NextIntake ==
    \/ Startup
    \/ Shutdown
    \/ \E r \in FirstRequest, payload \in Payloads : Validate(r, payload)
    \/ \E r \in FirstRequest : Handle(r)
    \/ \E r \in Requests : EmailStep(r)
    \/ \E r \in Requests : Respond(r)
    \/ \E r \in Requests : CreateRecord(r)
    \/ \E r \in Requests : SendSmtp(r)
    \/ \E r \in Requests : UpdateStatus(r)

SpecIntake == Init /\ [][NextIntake]_vars

\* ------------------------------------------- status and delete endpoints

\* What is left of a row after DELETE: ids are not given out again.
Deleted == [deleted |-> TRUE]

\* The row WHERE id = %s finds.
Found(id) ==
    /\ id \in DOMAIN project_submissions
    /\ project_submissions[id] # Deleted

valid_statuses == {"pending", "reviewed", "approved", "rejected"}

\* The statuses and reviewers a request can name.
RequestedStatuses == valid_statuses \cup {"archived"}
Reviewers == {Null, "ann"}

\* An update that writes the reviewer into contact_name as well.
StatusUpdated_Renames(row, status, reviewed_by) ==
    [row EXCEPT !.status = status, !.updated_at = "t", !.reviewed_at = "t",
                !.reviewed_by = reviewed_by, !.contact_name = <<"a">>]

\* UPDATE project_submissions SET status, updated_at, reviewed_at,
\* reviewed_by WHERE id = %s.
StatusUpdated(row, status, reviewed_by) ==
    [row EXCEPT !.status = status, !.updated_at = "t", !.reviewed_at = "t",
                !.reviewed_by = reviewed_by]

\* PATCH /api/v1/submissions/{id}/status: a status outside valid_statuses
\* is answered with an error before the gateway is called; the update
\* answers success when it found the row, an error when it found none or
\* the gateway raised.
update_submission_status(id, status, reviewed_by) ==
    /\ phase = "running"
    /\ \A o \in Requests : ~HandlerActive(o)
    /\ IF status \notin valid_statuses
       THEN /\ admin' = [op |-> "status", id |-> id, status |-> status,
                         reviewed_by |-> reviewed_by, success |-> FALSE]
            /\ project_submissions' = project_submissions
       ELSE \E out \in GatewayOutcomes :
               /\ admin' = [op |-> "status", id |-> id, status |-> status,
                            reviewed_by |-> reviewed_by,
                            success |-> out = "ok" /\ Found(id)]
               /\ project_submissions' =
                      IF out = "ok" /\ Found(id)
                      THEN [project_submissions EXCEPT
                               ![id] = StatusUpdated(@, status, reviewed_by)]
                      ELSE project_submissions
    /\ UNCHANGED <<phase, pool, email_service, emails_sent, req, thr, env>>
    /\ UNCHANGED <<gwv, smtp, intake, render>>

\* DELETE /api/v1/submissions/{id}.
delete_submission(id) ==
    /\ phase = "running"
    /\ \A o \in Requests : ~HandlerActive(o)
    /\ \E out \in GatewayOutcomes :
          /\ admin' = [op |-> "delete", id |-> id, status |-> "",
                       reviewed_by |-> Null,
                       success |-> out = "ok" /\ Found(id)]
          /\ project_submissions' =
                 IF out = "ok" /\ Found(id)
                 THEN [project_submissions EXCEPT ![id] = Deleted]
                 ELSE project_submissions
    /\ UNCHANGED <<phase, pool, email_service, emails_sent, req, thr, env>>
    /\ UNCHANGED <<gwv, smtp, intake, render>>

\* The ids a request can name: those of the rows there can be.
SubmissionIds == 1..MaxRequests

\* Every operation on one submission: the pipeline of the first request
\* and the two endpoints.
NextAdmin ==
    \/ Startup
    \/ Shutdown
    \/ \E r \in FirstRequest, sub \in Submissions : Submit(r, sub)
    \/ \E r \in Requests : EmailStep(r)
    \/ \E r \in Requests : Respond(r)
    \/ \E r \in Requests : CreateRecord(r)
    \/ \E r \in Requests : SendSmtp(r)
    \/ \E r \in Requests : UpdateStatus(r)
    \/ \E id \in SubmissionIds, status \in RequestedStatuses,
          reviewed_by \in Reviewers :
              update_submission_status(id, status, reviewed_by)
    \/ \E id \in SubmissionIds : delete_submission(id)

SpecAdmin == Init /\ [][NextAdmin]_vars

\* ------------------------------- generate_submission_confirmation_email

Digit == <<"0", "1", "2", "3", "4", "5", "6", "7", "8", "9">>

\* The decimal digits of n.
RECURSIVE Digits(_)
Digits(n) ==
    IF n < 10 THEN <<Digit[n + 1]>>
    ELSE Digits(n \div 10) \o <<Digit[(n % 10) + 1]>>

\* The digits of n < 1000 padded to three, n < 100 padded to two.
Three(n) ==
    <<Digit[(n \div 100) + 1], Digit[((n \div 10) % 10) + 1],
      Digit[(n % 10) + 1]>>
Two(n) == <<Digit[(n \div 10) + 1], Digit[(n % 10) + 1]>>

\* The "," of the format: groups of three digits from the right.
RECURSIVE Grouped(_)
Grouped(n) ==
    IF n < 1000 THEN Digits(n)
    ELSE Grouped(n \div 1000) \o <<",">> \o Three(n % 1000)

\* f"${float(budget):,.2f}" of an amount given in cents.
Currency(cents) ==
    <<"$">> \o Grouped(cents \div 100) \o <<".">> \o Two(cents % 100)

\* `if budget:` is false for None, for the number 0 and for "".
BudgetTruthy(budget) ==
    \/ budget.kind = "number" /\ budget.cents # 0
    \/ budget.kind = "text" /\ budget.text # <<>>

\* budget_formatted: None unless the budget is truthy; float() of text
\* that is no number raises ValueError and the text is kept.
BudgetFormatted(budget) ==
    IF ~BudgetTruthy(budget) THEN None
    ELSE IF budget.kind = "number" THEN Currency(budget.cents)
    ELSE budget.text

\* The filled slots from slot i on, in slot order.
RECURSIVE ActorsFrom(_, _)
ActorsFrom(actors, i) ==
    IF i > MaxActors THEN <<>>
    ELSE (IF actors[i] THEN <<ActorName[i]>> ELSE <<>>)
             \o ActorsFrom(actors, i + 1)

\* ", ".join(names)
RECURSIVE Join(_)
Join(names) ==
    IF Len(names) = 0 THEN <<>>
    ELSE IF Len(names) = 1 THEN <<names[1]>>
    ELSE <<names[1], ", ">> \o Join(Tail(names))

\* actors_str: None when no slot is filled.
ActorsStr(actors) ==
    IF ActorsFrom(actors, 1) = <<>> THEN None
    ELSE Join(ActorsFrom(actors, 1))

\* `if title:` is false for None and for "".
HasTitle(title) == title \notin {Null, ""}

Subject(title) ==
    IF HasTitle(title)
    THEN <<"We've Received Your Project: ", title>>
    ELSE <<"Your Project Submission Has Been Received">>

\* The lines of a rendered body that depend on the data: both templates
\* put the details, budget and cast included, inside {% if title %}.
Body(data, year) ==
    <<<<"Hello", FirstName(data.contact_name)>>>>
    \o (IF HasTitle(data.title)
        THEN <<<<"Project Title", data.title>>>>
             \o (IF BudgetFormatted(data.budget) # None
                 THEN <<<<"Budget", BudgetFormatted(data.budget)>>>>
                 ELSE <<>>)
             \o (IF ActorsStr(data.actors) # None
                 THEN <<<<"Cast Recommendations", ActorsStr(data.actors)>>>>
                 ELSE <<>>)
        ELSE <<>>)
    \o <<<<"(c)", year>>>>

\* A renderer whose output depends on the state of the pool.
Generate_SeesPool(data, year) ==
    IF FirstNameRaises(data.contact_name)
    THEN [NoOutput EXCEPT !.raised = TRUE]
    ELSE [raised |-> FALSE, subject |-> Subject(data.title),
          html |-> Body(data, year),
          plain |-> IF pool = "none" THEN <<>> ELSE Body(data, year)]

\* generate_submission_confirmation_email(submission_data) in a given
\* year: IndexError for a name of whitespace only, else the subject and
\* the two bodies.
Generate(data, year) ==
    IF FirstNameRaises(data.contact_name)
    THEN [NoOutput EXCEPT !.raised = TRUE]
    ELSE [raised |-> FALSE, subject |-> Subject(data.title),
          html |-> Body(data, year), plain |-> Body(data, year)]

\* The first call.
RenderFirst ==
    /\ render.calls = 0
    /\ render' = [render EXCEPT !.calls = 1,
                                !.first = Generate(render.data, render.year)]
    /\ UNCHANGED <<pipe, gwv, smtp, intake, admin>>

\* A second call with the same data in the same year.
RenderSecond ==
    /\ render.calls = 1
    /\ render' = [render EXCEPT !.calls = 2,
                                !.second = Generate(render.data, render.year)]
    /\ UNCHANGED <<pipe, gwv, smtp, intake, admin>>

\* Any submission_data in any year, the server not yet started.
InitRender ==
    /\ PipeInit
    /\ GwInit
    /\ SmtpInit
    /\ IntakeInit
    /\ AdminInit
    /\ render \in [data : SubmissionData, year : Years, calls : {0},
                   first : {NoOutput}, second : {NoOutput}]

\* The two calls, the server starting and stopping around them.
NextRender ==
    \/ RenderFirst
    \/ RenderSecond
    \/ Startup
    \/ Shutdown

SpecRender == InitRender /\ [][NextRender]_vars

\* ------------------------------------------------- claims: the renderer

\* The values of the lines of a body that carry a label.
LinesOf(body, label) ==
    {body[i][2] : i \in {j \in 1..Len(body) : body[j][1] = label}}

\* The first call has returned or raised.
Rendered == render.calls >= 1

\* C21: for every submission data with a non-empty title the renderer
\* returns the subject "We've Received Your Project: {title}" with the
\* title unchanged, and for a missing, null or empty title the fixed
\* subject "Your Project Submission Has Been Received".
C21_SubjectFollowsTitle ==
    Rendered =>
        /\ ~render.first.raised
        /\ render.data.title \notin {Null, ""} =>
               render.first.subject =
                   <<"We've Received Your Project: ", render.data.title>>
        /\ render.data.title \in {Null, ""} =>
               render.first.subject =
                   <<"Your Project Submission Has Been Received">>

\* The budget line a body is to carry: the currency amount of a number
\* (0 included), the text of a budget that is no number, none if absent.
ExpectedBudget(budget) ==
    IF budget.kind = "number" THEN {Currency(budget.cents)}
    ELSE IF budget.kind = "text" THEN {budget.text}
    ELSE {}

\* C22: a numeric budget (0 included, with or without a title) is in both
\* bodies as a currency amount with thousands separators and two
\* decimals, a non-numeric budget is in both bodies unchanged, and an
\* absent budget gives no budget line in either body.
C22_BudgetLine ==
    Rendered =>
        /\ ~render.first.raised
        /\ LinesOf(render.first.html, "Budget")
               = ExpectedBudget(render.data.budget)
        /\ LinesOf(render.first.plain, "Budget")
               = ExpectedBudget(render.data.budget)

\* The names of the filled slots up to slot i, in slot order, joined by
\* ", ".
RECURSIVE CastUpTo(_, _)
CastUpTo(actors, i) ==
    IF i = 0 THEN <<>>
    ELSE IF ~actors[i] THEN CastUpTo(actors, i - 1)
    ELSE IF CastUpTo(actors, i - 1) = <<>> THEN <<ActorName[i]>>
    ELSE CastUpTo(actors, i - 1) \o <<", ", ActorName[i]>>

ExpectedCast(actors) ==
    IF \E i \in ActorSlots : actors[i]
    THEN {CastUpTo(actors, MaxActors)}
    ELSE {}

\* C23: with at least one filled actor slot both bodies carry a "Cast
\* Recommendations" line listing exactly the filled names in slot order
\* joined by ", " (with or without a title); with six empty slots
\* neither body has a cast line.
C23_CastLine ==
    Rendered =>
        /\ ~render.first.raised
        /\ LinesOf(render.first.html, "Cast Recommendations")
               = ExpectedCast(render.data.actors)
        /\ LinesOf(render.first.plain, "Cast Recommendations")
               = ExpectedCast(render.data.actors)

InProgress(c) ==
    call[c].pc \in {"cursor", "body", "commit", "rollback", "putconn"}

\* The connections checked out of any pool.
CheckedOut == {pc \in PoolIds \X (1..(MaxConn + 1)) : pc[2] \in pools[pc[1]].used}

\* C14 as stated: a gateway call that acquired a connection commits exactly
\* when its body completed without exception, otherwise rolls back and
\* re-raises the original exception (of the body or of the commit), and in
\* both cases puts the connection back exactly once, so that the number of
\* checked-out connections equals the number of calls in progress.
C14_CommitOrRollbackThenRelease ==
    /\ \A c \in Callers :
          (call[c].pc = "returned" /\ call[c].conn # 0) =>
              /\ call[c].committed => call[c].body_ok /\ call[c].exc = ""
              /\ (call[c].body_ok /\ ~call[c].committed) =>
                     call[c].rolled_back /\ call[c].exc = "commit"
              /\ ~call[c].body_ok =>
                     call[c].rolled_back /\ call[c].exc = "body"
              /\ call[c].released = 1
    /\ Cardinality(CheckedOut) =
           Cardinality({c \in Callers : InProgress(c)})

\* C15 as stated: a gateway call without a pool fails at once, acquires no
\* connection and runs no query; and initialize_pool never creates a second
\* pool while one exists, two concurrent calls included.
C15_FailFastAndSinglePool ==
    /\ \A c \in Callers :
          call[c].exc \in {"RuntimeError", "AttributeError"} =>
              /\ call[c].pc = "returned"
              /\ call[c].conn = 0 /\ ~call[c].body_ok /\ ~call[c].committed
    /\ Cardinality({p \in PoolIds :
                       pools[p].created /\ ~pools[p].closed}) <= 1

\* C16: with all max_connections checked out a further gateway call does
\* not go on without a connection: it fails with PoolError, acquiring
\* nothing and leaving the pool as it is (the pool never makes it wait);
\* every call that is past getconn holds a connection of the pool.
C16_ExhaustionFails ==
    /\ [](\A c \in Callers :
             InProgress(c) =>
                 /\ call[c].conn \in Conns
                 /\ call[c].conn \in pools[call[c].p].used)
    /\ [][\A c \in Callers :
             (/\ call[c].pc = "getconn"
              /\ db_pool # 0
              /\ Cardinality(pools[db_pool].used) >= MaxConn
              /\ call'[c] # call[c]) =>
                 /\ call'[c].pc = "returned"
                 /\ call'[c].exc = "PoolError"
                 /\ call'[c].conn = 0
                 /\ pools' = pools]_vars

\* C16's case: a call refused with PoolError while the open pool has all
\* its connections checked out by calls in progress.
C16_Witness ==
    \E c, o \in Callers :
        /\ call[c].pc = "returned" /\ call[c].exc = "PoolError"
        /\ call[c].conn = 0
        /\ db_pool # 0 /\ ~pools[db_pool].closed
        /\ pools[db_pool].used = Conns
        /\ InProgress(o) /\ call[o].pc = "body"

C29_ReleaseNeverRaises ==
    \A c \in Callers :
        /\ call[c].pc = "putconn" => CanRelease(c)
        /\ call[c].exc # "putconn"

\* ------------------------------------------------------ claims: _send_smtp

\* C18 as stated: _send_smtp never raises during the transport phase; it
\* returns (true, non-empty message id, response text) when the relay
\* accepted the message, and (false, "", detail) for every failure, the
\* detail naming the most specific of authentication failure, recipient
\* refused, SMTP error and unexpected error.
C18_SendSmtpClassifies ==
    \A r \in Requests :
        /\ smtp[r].pc # "raised"
        /\ smtp[r].pc = "returned" =>
              IF smtp[r].accepted
              THEN /\ smtp[r].result.success
                   /\ smtp[r].result.message_id # ""
                   /\ smtp[r].result.response # ""
              ELSE /\ ~smtp[r].result.success
                   /\ smtp[r].result.message_id = ""
                   /\ smtp[r].result.response =
                          IF smtp[r].exc = "SMTPAuthenticationError"
                          THEN "Authentication failed"
                          ELSE IF smtp[r].exc = "SMTPRecipientsRefused"
                          THEN "Recipient refused"
                          ELSE IF IsInstance(smtp[r].exc, "SMTPException")
                          THEN "SMTP error"
                          ELSE "Unexpected error"

\* ------------------------------------------------ claims: request validation

\* The body lacks a required contact field.
LacksContact(payload) ==
    \/ payload.contact_name = MissingName
    \/ payload.contact_email = Missing
    \/ payload.contact_phone = Missing

\* Nothing of request r reached the handler: no row, no record, no thread.
Untouched(r) ==
    /\ req[r] = IdleRequest /\ thr[r] = NoThread /\ env[r] = NoEnv
    /\ project_submissions = <<>> /\ emails_sent = <<>>

\* C20 as stated: a request lacking a required contact field is rejected
\* before persistence (no row, no record, no delivery), and this is the
\* only case in which the caller is told of a failure.
C20_OnlyMissingContactFails ==
    \A r \in FirstRequest :
        /\ (intake[r].pc # "none" /\ LacksContact(intake[r].payload)) =>
               intake[r].pc = "rejected" /\ Untouched(r)
        /\ intake[r].pc = "rejected" => LacksContact(intake[r].payload)
        /\ Done(r) => req[r].response.success

\* C20 (amended): a request lacking a required contact field, or carrying
\* a budget that is no number, is rejected before persistence (no row, no
\* record, no delivery); a rejected body is the only case in which the
\* caller is told of a failure: every other request is answered success.
C20_InvalidBodyRejectedFirst ==
    \A r \in FirstRequest :
        /\ intake[r].pc # "none" =>
              (intake[r].pc = "rejected" <=>
                   \/ LacksContact(intake[r].payload)
                   \/ intake[r].payload.budget = "a lot")
        /\ intake[r].pc = "rejected" => Untouched(r)
        /\ req[r].pc # "idle" =>
              /\ intake[r].pc = "accepted"
              /\ req[r].sub = Parsed(intake[r].payload)
        /\ req[r].pc # "crashed"
        /\ Done(r) => req[r].response.success

\* C20's case: a body without contact_phone, everything else in place,
\* answered 422 by a running server with nothing written.
C20_Witness ==
    \E r \in FirstRequest :
        /\ intake[r].pc = "rejected"
        /\ intake[r].payload.contact_phone = Missing
        /\ intake[r].payload.contact_name = JaneDoe
        /\ intake[r].payload.contact_email = "jane@x.com"
        /\ intake[r].payload.budget = "1000"
        /\ phase = "running" /\ Untouched(r)

\* ----------------------------------------- claims: status and delete endpoints

\* The contact fields of a row.
Contact(row) == <<row.contact_name, row.contact_email, row.contact_phone>>

\* C25: a Submission keeps its id and contact fields under every sequence
\* of operations. A step changes an existing row only in two ways: the
\* status endpoint, asked for one of pending, reviewed, approved, rejected,
\* sets status, updated_at, reviewed_at and reviewed_by of the row it
\* names; the delete endpoint removes the row it names. A request for any
\* other status changes no row and is refused; submit and the email
\* pipeline only add rows.
C25_ContactFieldsImmutable ==
    /\ [][/\ Len(project_submissions') >= Len(project_submissions)
          /\ \A id \in DOMAIN project_submissions :
                LET old == project_submissions[id]
                    new == project_submissions'[id]
                IN  IF old = Deleted THEN new = Deleted
                    ELSE \/ new = old
                         \/ /\ new = Deleted
                            /\ admin'.op = "delete" /\ admin'.id = id
                            /\ admin'.success
                         \/ /\ new # Deleted
                            /\ Contact(new) = Contact(old)
                            /\ admin'.op = "status" /\ admin'.id = id
                            /\ admin'.status \in valid_statuses
                            /\ admin'.success
                            /\ new = [old EXCEPT
                                         !.status = admin'.status,
                                         !.updated_at = "t",
                                         !.reviewed_at = "t",
                                         !.reviewed_by = admin'.reviewed_by]
          /\ (/\ admin' # admin
              /\ admin'.op = "status"
              /\ admin'.status \notin valid_statuses) =>
                 /\ project_submissions' = project_submissions
                 /\ ~admin'.success]_vars
    /\ [](\A id \in DOMAIN project_submissions :
             Found(id) =>
                 project_submissions[id].status \in valid_statuses)
    /\ [](\A r \in Requests :
             (req[r].submission_id # None
                 /\ Found(req[r].submission_id[1])) =>
                 Contact(project_submissions[req[r].submission_id[1]]) =
                     Contact(req[r].sub))

\* C25's case: a submission whose delivery is over, approved by a
\* reviewer, with the contact fields it was posted with, the last request
\* being one for a status that does not exist.
C25_Witness ==
    \E r \in Requests :
        /\ Done(r) /\ thr[r].pc = "done"
        /\ req[r].submission_id # None
        /\ Found(req[r].submission_id[1])
        /\ project_submissions[req[r].submission_id[1]].status = "approved"
        /\ project_submissions[req[r].submission_id[1]].reviewed_by = "ann"
        /\ Contact(project_submissions[req[r].submission_id[1]]) =
               Contact(req[r].sub)
        /\ admin.op = "status" /\ admin.status = "archived"
        /\ ~admin.success

====
